---- MODULE Spec2Model ----
(***************************************************************************)
(* Model of src/cli.js (ergogen command line shell): the source resolver   *)
(* read_config, the output writers single / composite, generate_output,    *)
(* the orchestrator generate, and the main program with its fs.watch       *)
(* callback.                                                               *)
(*                                                                         *)
(* Execution model: one JavaScript thread.  A task runs to its next await; *)
(* `running` names the orchestrator run that holds the call stack inside   *)
(* the synchronous generate_output, and no other task is scheduled while   *)
(* it is set.  The config bundle on disk, the engine's result and I/O      *)
(* faults are the environment's choice at the step that observes them.     *)
(*                                                                         *)
(* Paths are relative to the output root: a directory is a tuple of        *)
(* segments (<<>> is the root), a file is [dir, base, ext].                *)
(***************************************************************************)
EXTENDS Integers, Sequences, FiniteSets, TLC

\* ---------------------------------------------------------------- bounds

\* filesystem notifications delivered to the fs.watch callback
MaxHandlers == 2

\* ---------------------------------------------------------------- values

\* JavaScript values that `!data` treats as "not produced"
Undefined == "<undefined>"
EmptyString == ""
Truthy(v) == v \notin {Undefined, EmptyString}

\* config texts the resolver can return
Texts == {"t1", "t2"}
NoText == "<none>"

Inj1 == [type |-> "footprint", name |-> "custom", value |-> "js1"]
Inj2 == [type |-> "template", name |-> "board", value |-> "js2"]
\* injection lists io.unpack can return (empty for a plain text file)
InjLists == {<< >>, <<Inj1, Inj2>>}
Bundles == [config_text : Texts, injections : InjLists]

\* ---------------------------------------------------------------- filesystem

NoContent == [enc |-> "none", val |-> ""]
yamldump(data) == [enc |-> "yaml", val |-> data]
Verbatim(data) == [enc |-> "raw", val |-> data]

Root == << >>
FileKey(d, b, e) == [dir |-> d, base |-> b, ext |-> e]
EmptyFs == [dirs |-> {}, files |-> [k \in {} |-> NoContent]]
IsPrefix(p, d) == Len(p) <= Len(d) /\ SubSeq(d, 1, Len(p)) = p
Prefixes(d) == {SubSeq(d, 1, k) : k \in 0..Len(d)}

removeSync(f, d) ==
    [dirs  |-> {x \in f.dirs : ~IsPrefix(d, x)},
     files |-> [k \in {x \in DOMAIN f.files : ~IsPrefix(d, x.dir)} |-> f.files[k]]]

mkdirpSync(f, d) == [dirs |-> f.dirs \cup Prefixes(d), files |-> f.files]

writeFileSync(f, key, c) ==
    [dirs  |-> f.dirs,
     files |-> [k \in DOMAIN f.files \cup {key} |-> IF k = key THEN c ELSE f.files[k]]]

\* the synchronous fs calls a writer issues, in program order
RemoveOp(d) == [op |-> "removeSync", dir |-> d, base |-> "", ext |-> "", content |-> NoContent]
MkdirpOp(d) == [op |-> "mkdirpSync", dir |-> d, base |-> "", ext |-> "", content |-> NoContent]
WriteOp(d, b, e, c) == [op |-> "writeFileSync", dir |-> d, base |-> b, ext |-> e, content |-> c]

ApplyOp(f, o) ==
    CASE o.op = "removeSync"    -> removeSync(f, o.dir)
      [] o.op = "mkdirpSync"    -> mkdirpSync(f, o.dir)
      [] o.op = "writeFileSync" -> writeFileSync(f, FileKey(o.dir, o.base, o.ext), o.content)

RECURSIVE ApplyOps(_, _)
ApplyOps(f, ops) == IF ops = << >> THEN f ELSE ApplyOps(ApplyOp(f, Head(ops)), Tail(ops))

\* writeFileSync needs the parent directory; the other calls always can run
OpCanRun(f, o) == o.op = "writeFileSync" => o.dir \in f.dirs

\* ---------------------------------------------------------------- writers

\* a relative path 'dir/base.ext' (single) or 'dir/base' (composite, ext = "")
Rel(d, b, e) == [dir |-> d, base |-> b, ext |-> e]

single_mkdir_first(data, rel) ==
    <<MkdirpOp(rel.dir)>> \o
    (IF ~Truthy(data) THEN << >>
     ELSE <<WriteOp(rel.dir, rel.base, rel.ext,
                    IF rel.ext = "yaml" THEN yamldump(data) ELSE Verbatim(data))>>)

single(data, rel) ==
    IF ~Truthy(data) THEN << >>
    ELSE <<MkdirpOp(rel.dir),
           WriteOp(rel.dir, rel.base, rel.ext,
                   IF rel.ext = "yaml" THEN yamldump(data) ELSE Verbatim(data))>>

\* a composite payload: obj = FALSE stands for an undefined payload
UndefinedComposite ==
    [obj |-> FALSE, yaml |-> Undefined, svg |-> Undefined, dxf |-> Undefined, jscad |-> Undefined]
Composite(y, s, d, j) == [obj |-> TRUE, yaml |-> y, svg |-> s, dxf |-> d, jscad |-> j]

Formats == <<"svg", "dxf", "jscad">>

RECURSIVE FormatOps(_, _, _)
FormatOps(data, rel, i) ==
    IF i > Len(Formats) THEN << >>
    ELSE (IF Truthy(data[Formats[i]])
          THEN <<MkdirpOp(rel.dir),
                 WriteOp(rel.dir, rel.base, Formats[i], Verbatim(data[Formats[i]]))>>
          ELSE << >>) \o FormatOps(data, rel, i + 1)

composite_yaml_last(data, rel) ==
    IF ~data.obj THEN << >>
    ELSE FormatOps(data, rel, 1) \o
         (IF Truthy(data.yaml)
          THEN <<MkdirpOp(rel.dir), WriteOp(rel.dir, rel.base, "yaml", yamldump(data.yaml))>>
          ELSE << >>)

composite(data, rel) ==
    IF ~data.obj THEN << >>
    ELSE (IF Truthy(data.yaml)
          THEN <<MkdirpOp(rel.dir), WriteOp(rel.dir, rel.base, "yaml", yamldump(data.yaml))>>
          ELSE << >>) \o FormatOps(data, rel, 1)

\* ---------------------------------------------------------------- engine results

\* Object.entries(mapping): a sequence of [name, payload] in insertion order
RECURSIVE CompositeEntries(_, _, _)
CompositeEntries(entries, d, i) ==
    IF i > Len(entries) THEN << >>
    ELSE composite(entries[i].payload, Rel(<<d>>, entries[i].name, ""))
         \o CompositeEntries(entries, d, i + 1)

RECURSIVE PcbEntries(_, _)
PcbEntries(entries, i) ==
    IF i > Len(entries) THEN << >>
    ELSE single(entries[i].payload, Rel(<<"pcbs">>, entries[i].name, "kicad_pcb"))
         \o PcbEntries(entries, i + 1)

generate_output(results, cl) ==
    (IF cl THEN <<RemoveOp(Root)>> ELSE << >>)
    \o <<MkdirpOp(Root)>>
    \o single(results.raw, Rel(<<"source">>, "raw", "txt"))
    \o single(results.canonical, Rel(<<"source">>, "canonical", "yaml"))
    \o single(results.units, Rel(<<"points">>, "units", "yaml"))
    \o single(results.points, Rel(<<"points">>, "points", "yaml"))
    \o composite(results.demo, Rel(<<"points">>, "demo", ""))
    \o CompositeEntries(results.outlines, "outlines", 1)
    \o CompositeEntries(results.cases, "cases", 1)
    \o PcbEntries(results.pcbs, 1)

\* the result tree of ergogen.process, a function of the config text: t1 is a
\* points-only config, any other text a board with one outline and one pcb
TreePoints(t) ==
    [raw |-> Undefined, canonical |-> Undefined, units |-> t, points |-> Undefined,
     demo |-> Composite(Undefined, t, Undefined, Undefined),
     outlines |-> << >>, cases |-> << >>, pcbs |-> << >>]
TreeBoard(t) ==
    [raw |-> Undefined, canonical |-> Undefined, units |-> Undefined, points |-> Undefined,
     demo |-> UndefinedComposite,
     outlines |-> <<[name |-> "o1", payload |-> Composite(t, Undefined, Undefined, Undefined)]>>,
     cases |-> << >>,
     pcbs |-> <<[name |-> "p1", payload |-> t]>>]
process_context(t) == IF t = "t1" THEN TreePoints(t) ELSE TreeBoard(t)

\* ---------------------------------------------------------------- state

VARIABLES
    watch,          \* args.w
    clean,          \* args.clean
    config_text,    \* the held config text (let config_text, line 207)
    mainpc,         \* position of the main async function
    mainInj,        \* injections of the bundle whose text main's generate uses
    startupInjects, \* the ergogen.inject calls made before the first generate, in order
    exit,           \* "running", "exit0", "fatal" or "crashed"
    nextH,          \* next fs.watch callback invocation
    hpc,            \* per callback invocation: its position
    hkind,          \* per callback invocation: the event kind
    lastRead,       \* the callback that last got a bundle from read_config, and the bundle
    injected,       \* the ergogen.inject calls made by the latest read_config, in order
    rpc,            \* per generate run (0 = main's, h = callback h's): its position
    rtext,          \* per run: its config_text argument
    ri,             \* per run: how many fs calls its generate_output has made so far
    routcome,       \* per run: "none", "ok", "engine_failed", "io_failed"
    rremoved,       \* per run: how many times it has removed the output root
    fsBefore,       \* the filesystem when the latest generate_output began
    running,        \* the run inside generate_output, or None
    lastMat,        \* the run whose generate_output ended last, or None
    fs,             \* the output root on disk
    call            \* a direct call of single / composite (writer specification)

vars == <<watch, clean, config_text, mainpc, mainInj, startupInjects, exit, nextH,
          hpc, hkind, lastRead, injected, rpc, rtext, ri, routcome, rremoved,
          fsBefore, running, lastMat, fs, call>>

Handlers == 1..MaxHandlers
Runs == 0..MaxHandlers
\* an id that is no run: nothing holds the call stack
None == MaxHandlers + 1

StaleFs ==
    [dirs  |-> {Root, <<"cases">>},
     files |-> [k \in {FileKey(<<"cases">>, "old", "jscad")} |-> Verbatim("t0")]]

NoCall ==
    [fn |-> "none", sdata |-> Undefined, cdata |-> UndefinedComposite,
     rel |-> Rel(Root, "", ""), plan |-> << >>, i |-> 0, status |-> "none",
     before |-> EmptyFs, n |-> 0]

NoRead == [h |-> 0, config_text |-> NoText, injections |-> << >>]

Init ==
    /\ watch \in BOOLEAN
    /\ clean \in BOOLEAN
    /\ config_text = NoText
    /\ mainpc = "read1"
    /\ mainInj = << >>
    /\ startupInjects = << >>
    /\ exit = "running"
    /\ nextH = 1
    /\ hpc = [h \in Handlers |-> "unused"]
    /\ hkind = [h \in Handlers |-> "none"]
    /\ lastRead = NoRead
    /\ injected = << >>
    /\ rpc = [r \in Runs |-> "none"]
    /\ rtext = [r \in Runs |-> NoText]
    /\ ri = [r \in Runs |-> 0]
    /\ routcome = [r \in Runs |-> "none"]
    /\ rremoved = [r \in Runs |-> 0]
    /\ fsBefore = EmptyFs
    /\ running = None
    /\ lastMat = None
    /\ fs \in {EmptyFs, StaleFs}
    /\ call = NoCall

\* ---------------------------------------------------------------- read_config

\* lines 102-104 with the loop left out
inject_none(calls, injections) == calls

\* lines 102-104: ergogen.inject for every injection, in order
inject_all(calls, injections) == calls \o injections

\* ---------------------------------------------------------------- generate

Idle == exit = "running" /\ running = None

\* the fs calls of run r's generate_output, in program order
rplan(r) == generate_output(process_context(rtext[r]), clean)

\* generate(config_text, ...) up to its await of process_context (line 149)
StartRun(r, text) ==
    /\ rpc' = [rpc EXCEPT ![r] = "await_process"]
    /\ rtext' = [rtext EXCEPT ![r] = text]

\* lines 151-153 without the catch: the failure reaches the caller
generate_rethrows(r) == "rejected"

\* what the caller of generate sees when the run has failed: the catch of
\* lines 151-153 turns every failure into a normal return
generate_on_error(r) == "returned"

\* generate returned (or rejected) to its caller: main (r = 0) or callback r
Settle(r, how) ==
    IF r = 0
    THEN /\ hpc' = hpc
         /\ IF how = "returned"
            THEN /\ mainpc' = IF watch THEN "watching" ELSE "exited"
                 /\ exit' = IF watch THEN exit ELSE "exit0"
            ELSE /\ mainpc' = "rejected"
                 /\ exit' = "fatal"
    ELSE /\ mainpc' = mainpc
         /\ hpc' = [hpc EXCEPT ![r] = how]
         /\ exit' = exit

\* an await between the fs calls of generate_output
yield_after_each_call(r, i, n) == None

\* the run stays on the call stack until generate_output's last statement:
\* lines 118-145 contain no await
NextOnStack(r, i, n) == IF i < n THEN r ELSE None

\* ergogen.process resolved with a result tree; generate_output starts
ProcessOk(r) ==
    /\ Idle
    /\ rpc[r] = "await_process"
    /\ rpc' = [rpc EXCEPT ![r] = "materializing"]
    /\ ri' = [ri EXCEPT ![r] = 0]
    /\ fsBefore' = fs
    /\ running' = r
    /\ UNCHANGED <<rremoved, watch, clean, config_text, mainpc, mainInj, startupInjects, exit, nextH,
                   hpc, hkind, lastRead, injected, rtext, routcome, lastMat, fs, call>>

\* ergogen.process rejected: caught, logged, 'Done.'
ProcessFail(r) ==
    /\ Idle
    /\ rpc[r] = "await_process"
    /\ rpc' = [rpc EXCEPT ![r] = "done"]
    /\ routcome' = [routcome EXCEPT ![r] = "engine_failed"]
    /\ Settle(r, generate_on_error(r))
    /\ UNCHANGED <<rremoved, watch, clean, config_text, mainInj, startupInjects, nextH,
                   hkind, lastRead, injected, rtext, ri, fsBefore,
                   running, lastMat, fs, call>>

\* the next fs call of generate_output succeeds
MatStep(r) ==
    /\ exit = "running"
    /\ running \in {r, None}
    /\ rpc[r] = "materializing"
    /\ ri[r] < Len(rplan(r))
    /\ OpCanRun(fs, rplan(r)[ri[r] + 1])
    /\ fs' = ApplyOp(fs, rplan(r)[ri[r] + 1])
    /\ rremoved' = [rremoved EXCEPT ![r] =
                        IF rplan(r)[ri[r] + 1].op = "removeSync" THEN @ + 1 ELSE @]
    /\ running' = NextOnStack(r, ri[r] + 1, Len(rplan(r)))
    /\ IF ri[r] + 1 = Len(rplan(r))
       THEN /\ rpc' = [rpc EXCEPT ![r] = "done"]
            /\ routcome' = [routcome EXCEPT ![r] = "ok"]
            /\ ri' = [ri EXCEPT ![r] = 0]
            /\ lastMat' = r
            /\ Settle(r, "returned")
       ELSE /\ ri' = [ri EXCEPT ![r] = @ + 1]
            /\ UNCHANGED <<rpc, routcome, lastMat, mainpc, hpc, exit>>
    /\ UNCHANGED <<watch, clean, config_text, mainInj, startupInjects, nextH,
                   hkind, lastRead, injected, rtext, fsBefore, call>>

\* the next fs call of generate_output throws (an I/O fault, or a missing
\* parent directory): caught, logged, 'Done.'
MatFail(r) ==
    /\ exit = "running"
    /\ running \in {r, None}
    /\ rpc[r] = "materializing"
    /\ ri[r] < Len(rplan(r))
    /\ rpc' = [rpc EXCEPT ![r] = "done"]
    /\ routcome' = [routcome EXCEPT ![r] = "io_failed"]
    /\ ri' = [ri EXCEPT ![r] = 0]
    /\ lastMat' = r
    /\ running' = None
    /\ Settle(r, generate_on_error(r))
    /\ UNCHANGED <<rremoved, watch, clean, config_text, mainInj, startupInjects, nextH,
                   hkind, lastRead, injected, rtext, fsBefore, fs, call>>

\* ---------------------------------------------------------------- main

\* line 207: the first read_config resolved.  In watch mode generate follows
\* (line 210); otherwise line 220 reads the config again.
MainRead1Ok(b) ==
    /\ Idle
    /\ mainpc = "read1"
    /\ startupInjects' = inject_all(startupInjects, b.injections)
    /\ injected' = inject_all(<< >>, b.injections)
    /\ config_text' = b.config_text
    /\ mainInj' = b.injections
    /\ IF watch
       THEN /\ mainpc' = "generate"
            /\ StartRun(0, b.config_text)
       ELSE /\ mainpc' = "read2"
            /\ UNCHANGED <<rpc, rtext>>
    /\ UNCHANGED <<rremoved, watch, clean, exit, nextH, hpc, hkind, lastRead,
                   ri, routcome, fsBefore, running, lastMat, fs, call>>

\* line 220: the second read_config of single-shot mode resolved; its text
\* (the inner const config_text) is the one generate gets
MainRead2Ok(b) ==
    /\ Idle
    /\ mainpc = "read2"
    /\ startupInjects' = inject_all(startupInjects, b.injections)
    /\ injected' = inject_all(<< >>, b.injections)
    /\ mainInj' = b.injections
    /\ mainpc' = "generate"
    /\ StartRun(0, b.config_text)
    /\ UNCHANGED <<rremoved, watch, clean, config_text, exit, nextH, hpc, hkind, lastRead,
                   ri, routcome, fsBefore, running, lastMat, fs, call>>

\* read_config threw at line 207 or 220: nothing catches it in main
MainReadFail ==
    /\ Idle
    /\ mainpc \in {"read1", "read2"}
    /\ mainpc' = "rejected"
    /\ exit' = "fatal"
    /\ UNCHANGED <<rremoved, watch, clean, config_text, mainInj, startupInjects, nextH, hpc, hkind,
                   lastRead, injected, rpc, rtext, ri, routcome, fsBefore,
                   running, lastMat, fs, call>>

\* ---------------------------------------------------------------- fs.watch callback

\* what the runtime does with a rejected promise nobody handles: raise it as
\* an uncaught exception (the default since Node 15) or only warn
UnhandledRejections == {"throw", "warn"}

\* line 212
IsChange(event) == event = "change"

\* line 214 with a guard that also drops the notification while a run is in flight
SameTextOrBusy(new_config_text, held) ==
    new_config_text = held \/ \E r \in Runs : rpc[r] \in {"await_process", "materializing"}

\* line 214 left out
SameTextNever(new_config_text, held) == FALSE

\* line 214
SameText(new_config_text, held) == new_config_text = held

\* fs.watch invokes the callback; line 212 returns for any other event kind,
\* line 213 starts read_config
Notify(event) ==
    /\ Idle
    /\ mainpc = "watching"
    /\ nextH <= MaxHandlers
    /\ nextH' = nextH + 1
    /\ hkind' = [hkind EXCEPT ![nextH] = event]
    /\ hpc' = [hpc EXCEPT ![nextH] = IF IsChange(event) THEN "reading" ELSE "skipped"]
    /\ UNCHANGED <<rremoved, watch, clean, config_text, mainpc, mainInj, startupInjects, exit,
                   lastRead, injected, rpc, rtext, ri, routcome, fsBefore, running,
                   lastMat, fs, call>>

\* read_config resolved inside the callback (line 213): the injections are
\* registered before it returns the text.  The callback then resumes in the
\* same microtask drain: lines 214-217 compare with the held text and, if it
\* differs, hold the new text and call generate up to its first await.
ReadOk(h, b) ==
    /\ Idle
    /\ hpc[h] = "reading"
    /\ injected' = inject_all(<< >>, b.injections)
    /\ lastRead' = [h |-> h, config_text |-> b.config_text, injections |-> b.injections]
    /\ IF SameText(b.config_text, config_text)
       THEN /\ hpc' = [hpc EXCEPT ![h] = "suppressed"]
            /\ UNCHANGED <<config_text, rpc, rtext>>
       ELSE /\ hpc' = [hpc EXCEPT ![h] = "generating"]
            /\ config_text' = b.config_text
            /\ StartRun(h, b.config_text)
    /\ UNCHANGED <<rremoved, watch, clean, mainpc, mainInj, startupInjects, exit, nextH,
                   hkind, ri, routcome, fsBefore, running, lastMat, fs, call>>

\* read_config threw inside the callback: the callback's promise rejects and
\* nothing handles it; the runtime either raises it as an uncaught exception
\* (the process ends) or only warns
ReadFail(h, mode) ==
    /\ Idle
    /\ hpc[h] = "reading"
    /\ hpc' = [hpc EXCEPT ![h] = "rejected"]
    /\ exit' = IF mode = "throw" THEN "crashed" ELSE exit
    /\ UNCHANGED <<rremoved, watch, clean, config_text, mainpc, mainInj, startupInjects, nextH,
                   hkind, lastRead, injected, rpc, rtext, ri, routcome,
                   fsBefore, running, lastMat, fs, call>>

Next ==
    \/ \E b \in Bundles : MainRead1Ok(b)
    \/ \E b \in Bundles : MainRead2Ok(b)
    \/ MainReadFail
    \/ \E e \in {"change", "rename"} : Notify(e)
    \/ \E h \in Handlers, b \in Bundles : ReadOk(h, b)
    \/ \E h \in Handlers, mode \in UnhandledRejections : ReadFail(h, mode)
    \/ \E r \in Runs : ProcessOk(r)
    \/ \E r \in Runs : ProcessFail(r)
    \/ \E r \in Runs : MatStep(r)
    \/ \E r \in Runs : MatFail(r)

Spec == Init /\ [][Next]_vars

\* ---------------------------------------------------------------- writers, called directly

\* calls of single / composite per execution
MaxCalls == 1

\* payload values: undefined, the empty string, a non-empty text
Values == {Undefined, EmptyString, "v"}
SingleRels ==
    {Rel(<<"source">>, "raw", "txt"), Rel(<<"points">>, "units", "yaml"),
     Rel(<<"pcbs">>, "p1", "kicad_pcb")}
CompositeRels == {Rel(<<"points">>, "demo", ""), Rel(<<"outlines">>, "o1", "")}
CompositePayloads ==
    {UndefinedComposite} \cup
    {Composite(y, s, d, j) : y \in Values, s \in Values, d \in Values, j \in Values}

\* an output root that already holds a demo drawing
DemoFs ==
    [dirs  |-> {Root, <<"points">>},
     files |-> [k \in {FileKey(<<"points">>, "demo", "svg")} |-> Verbatim("old")]]

InitWriters ==
    /\ watch = FALSE
    /\ clean = FALSE
    /\ config_text = NoText
    /\ mainpc = "writers"
    /\ mainInj = << >>
    /\ startupInjects = << >>
    /\ exit = "running"
    /\ nextH = 1
    /\ hpc = [h \in Handlers |-> "unused"]
    /\ hkind = [h \in Handlers |-> "none"]
    /\ lastRead = NoRead
    /\ injected = << >>
    /\ rpc = [r \in Runs |-> "none"]
    /\ rtext = [r \in Runs |-> NoText]
    /\ ri = [r \in Runs |-> 0]
    /\ routcome = [r \in Runs |-> "none"]
    /\ rremoved = [r \in Runs |-> 0]
    /\ fsBefore = EmptyFs
    /\ running = None
    /\ lastMat = None
    /\ fs \in {EmptyFs, DemoFs}
    /\ call = [NoCall EXCEPT !.before = fs]

MainVars == <<watch, clean, config_text, mainpc, mainInj, startupInjects, exit, nextH,
              hpc, hkind, lastRead, injected, rpc, rtext, ri, routcome, rremoved,
              fsBefore, running, lastMat>>

NewCall(fn, sdata, cdata, rel, plan) ==
    [fn |-> fn, sdata |-> sdata, cdata |-> cdata, rel |-> rel, plan |-> plan, i |-> 0,
     status |-> IF plan = << >> THEN "returned" ELSE "running", before |-> fs,
     n |-> call.n + 1]

\* single(data, output_directory, rel) is called
CallSingle(data, rel) ==
    /\ call.status # "running"
    /\ call.n < MaxCalls
    /\ call' = NewCall("single", data, UndefinedComposite, rel, single(data, rel))
    /\ UNCHANGED <<fs, MainVars>>

\* composite(data, output_directory, rel) is called
CallComposite(data, rel) ==
    /\ call.status # "running"
    /\ call.n < MaxCalls
    /\ call' = NewCall("composite", Undefined, data, rel, composite(data, rel))
    /\ UNCHANGED <<fs, MainVars>>

\* the next fs call of the writer succeeds
CallStep ==
    /\ call.status = "running"
    /\ OpCanRun(fs, call.plan[call.i + 1])
    /\ fs' = ApplyOp(fs, call.plan[call.i + 1])
    /\ call' = [call EXCEPT !.i = @ + 1,
                            !.status = IF call.i + 1 = Len(call.plan)
                                       THEN "returned" ELSE "running"]
    /\ UNCHANGED MainVars

\* the next fs call of the writer throws
CallFail ==
    /\ call.status = "running"
    /\ call' = [call EXCEPT !.status = "threw"]
    /\ UNCHANGED <<fs, MainVars>>

NextWriters ==
    \/ \E data \in Values, rel \in SingleRels : CallSingle(data, rel)
    \/ \E data \in CompositePayloads, rel \in CompositeRels : CallComposite(data, rel)
    \/ CallStep
    \/ CallFail

SpecWriters == InitWriters /\ [][NextWriters]_vars

\* ---------------------------------------------------------------- properties

Failed(r) == routcome[r] \in {"engine_failed", "io_failed"}
IsWrite(o) == o.op = "writeFileSync"
WrittenKeys(ops) ==
    {FileKey(ops[i].dir, ops[i].base, ops[i].ext) : i \in {j \in 1..Len(ops) : IsWrite(ops[j])}}
\* the files on disk whose content was produced from config text t
FilesOf(t) == {k \in DOMAIN fs.files : fs.files[k].val = t}
\* callback h took the step that follows its read_config
Resumed(h) == hpc[h] = "reading" /\ hpc'[h] \in {"suppressed", "generating"}

\* C1: a notification starts an orchestrator run only if its kind is 'change'
\* and the text re-resolved for it differs from the held text; a notification
\* of another kind, and a 'change' whose re-resolved text equals the held
\* text, starts no run, writes no file and leaves the held text as it is.
C1_RegenerateOnlyOnChangedText ==
    [][\A h \in Handlers :
         /\ (rpc[h] = "none" /\ rpc'[h] # "none")
               => /\ hkind[h] = "change"
                  /\ lastRead'.h = h
                  /\ lastRead'.config_text # config_text
                  /\ rtext'[h] = lastRead'.config_text
         /\ (hpc[h] = "unused" /\ hpc'[h] # "unused" /\ hkind'[h] # "change")
               => (hpc'[h] = "skipped" /\ UNCHANGED <<rpc, fs, config_text>>)
         /\ (Resumed(h) /\ lastRead'.config_text = config_text)
               => (hpc'[h] = "suppressed" /\ UNCHANGED <<rpc, fs, config_text>>)
         /\ hpc[h] \in {"skipped", "suppressed"} => (hpc'[h] = hpc[h] /\ rpc'[h] = "none")
      ]_vars

C1_Witness ==
    \E h, g \in Handlers :
        /\ hpc[h] = "skipped"
        /\ hpc[g] = "suppressed"
        /\ lastRead.h = g
        /\ lastRead.config_text = config_text
        /\ routcome[0] = "ok"

\* C2: generate never propagates a failure.  A run whose engine call or whose
\* fs call failed is done and its caller has resumed normally: the callback
\* has returned, watch mode's main is watching, single-shot's main has
\* finished with exit 0.  The process never ends because of a generation or
\* materialization failure.
C2_GenerateNeverPropagates ==
    /\ \A r \in Runs :
          Failed(r) =>
             /\ rpc[r] = "done"
             /\ running # r
             /\ r # 0 => hpc[r] = "returned"
             /\ r = 0 => mainpc = (IF watch THEN "watching" ELSE "exited")
    /\ exit = "fatal" => rpc[0] = "none"
    /\ (~watch /\ rpc[0] = "done") => exit = "exit0"
    /\ (watch /\ rpc[0] = "done" /\ exit = "running")  => mainpc = "watching"

\* the start-up run failed in the engine, a callback's run failed on disk, and
\* the run of a later notification succeeded
C2_Witness ==
    /\ watch
    /\ routcome[0] = "engine_failed"
    /\ \E h, g \in Handlers : routcome[h] = "io_failed" /\ routcome[g] = "ok" /\ h < g
    /\ exit = "running"

\* C3: when the first generate awaits the engine, every injection of the
\* bundle whose text it uses has been registered exactly once, in the
\* bundle's order, and nothing else has been registered.
C3_InjectedExactlyOnce ==
    rpc[0] = "await_process" => startupInjects = mainInj

\* C6: every finished run of the orchestrator with clean set has removed (and
\* recreated) the output root exactly once.
C6_CleanInEveryRun ==
    \A r \in Runs : (clean /\ rpc[r] = "done") => rremoved[r] = 1

\* C6, what generate does instead: a run whose engine call succeeded starts
\* generate_output by removing (only with clean) and then creating the output
\* root, once, before any artifact is written; if no fs call fails, then with
\* clean the root holds exactly the files the run wrote, and without clean
\* every file that was there before is still there.  A run whose engine call
\* failed removes nothing.
C6_CleanOncePerMaterialization ==
    \A r \in Runs :
        /\ routcome[r] = "engine_failed" => rremoved[r] = 0
        /\ rremoved[r] <= 1
        /\ ~clean => rremoved[r] = 0
        /\ (clean /\ routcome[r] = "ok") => rremoved[r] = 1
        /\ rpc[r] = "materializing" =>
              LET p == rplan(r)
                  first == IF clean THEN 2 ELSE 1
              IN /\ clean => p[1] = RemoveOp(Root)
                 /\ p[first] = MkdirpOp(Root)
                 /\ \A i \in (first + 1)..Len(p) :
                       p[i].op # "removeSync" /\ p[i] # MkdirpOp(Root)
                 /\ (clean /\ ri[r] >= 1) => rremoved[r] = 1
        /\ (routcome[r] = "ok" /\ lastMat = r /\ running = None) =>
              /\ Root \in fs.dirs
              /\ clean => DOMAIN fs.files = WrittenKeys(rplan(r))
              /\ ~clean => /\ DOMAIN fsBefore.files \subseteq DOMAIN fs.files
                           /\ fsBefore.dirs \subseteq fs.dirs

\* a clean run over a stale output root, and an earlier run whose engine
\* call failed and which therefore left the stale output in place
C6_Witness ==
    /\ clean
    /\ routcome[0] = "engine_failed"
    /\ \E r \in Handlers :
          /\ routcome[r] = "ok"
          /\ lastMat = r
          /\ rremoved[r] = 1
          /\ FileKey(<<"cases">>, "old", "jscad") \notin DOMAIN fs.files
          /\ FileKey(<<"cases">>, "old", "jscad") \in DOMAIN fsBefore.files

\* C7: a resolution failure inside a watch cycle starts no run and does not
\* end the watch loop: the process keeps running, ready for a later change.
C7_WatchSurvivesResolutionFailure ==
    \A h \in Handlers : hpc[h] = "rejected" => (rpc[h] = "none" /\ exit = "running")

\* C8: regeneration runs are neither queued nor serialized.  A callback whose
\* re-resolved text differs from the held text starts its run in that very
\* step, whatever runs are in flight, and no run in flight is cancelled or
\* waited for.
C8_RunsNotSerialized ==
    [][\A h \in Handlers :
         (Resumed(h) /\ lastRead'.config_text # config_text)
            => /\ rpc'[h] = "await_process"
               /\ config_text' = lastRead'.config_text
               /\ \A r \in Runs \ {h} : rpc'[r] = rpc[r] /\ rtext'[r] = rtext[r]
      ]_vars

\* every run has finished; the run that wrote last is not the one of the held
\* text (which was started after it and has written before it), and its
\* output is what the disk holds
C8_Witness ==
    \E r, q \in Handlers :
        /\ \A x \in Runs : rpc[x] \in {"none", "done"}
        /\ routcome[r] = "ok" /\ routcome[q] = "ok"
        /\ lastMat = r
        /\ rtext[r] # config_text
        /\ rtext[q] = config_text
        /\ \A x \in Handlers : rtext[x] = config_text => x = q
        /\ clean
        /\ FilesOf(rtext[r]) # {}
        /\ FilesOf(config_text) = {}

\* C9: generate_output is atomic with respect to other runs.  At most one run
\* is inside it; what is on disk while a run is inside is exactly what that
\* run's own fs calls so far have made of the disk it found; and when it has
\* finished, the disk is that run's output layered over what it found (with
\* clean: that run's output alone).
C9_MaterializationAtomic ==
    /\ Cardinality({r \in Runs : rpc[r] = "materializing"}) <= 1
    /\ \A r \in Runs :
          rpc[r] = "materializing" => fs = ApplyOps(fsBefore, SubSeq(rplan(r), 1, ri[r]))
    /\ \A r \in Runs :
          (routcome[r] = "ok" /\ lastMat = r /\ running = None) =>
             /\ fs = ApplyOps(fsBefore, rplan(r))
             /\ \A k \in WrittenKeys(rplan(r)) : fs.files[k].val = rtext[r]
             /\ \A k \in DOMAIN fs.files \ WrittenKeys(rplan(r)) :
                   k \in DOMAIN fsBefore.files /\ fs.files[k] = fsBefore.files[k]

\* two overlapping runs have finished, the older one last: its output lies
\* over the output of the other
C9_Witness ==
    \E r, q \in Handlers :
        /\ ~clean
        /\ routcome[r] = "ok" /\ routcome[q] = "ok"
        /\ lastMat = r /\ running = None
        /\ rtext[r] # config_text
        /\ rtext[q] = config_text
        /\ FilesOf(rtext[r]) # {}
        /\ FilesOf(rtext[q]) # {}

\* C10: every 'change' notification whose re-resolve succeeds registers all
\* re-resolved injections, in order, before the text comparison, also when
\* the text equals the held text; the suppressed cycle then starts no run and
\* leaves the held text and the output files as they are.
C10_SuppressedCycleStillInjects ==
    [][\A h \in Handlers :
         Resumed(h) =>
            /\ lastRead'.h = h
            /\ injected' = lastRead'.injections
            /\ hpc'[h] = "suppressed" =>
                  /\ lastRead'.config_text = config_text
                  /\ UNCHANGED <<config_text, rpc, rtext, fs>>
      ]_vars

\* the bundle changed in its injections only
C10_Witness ==
    \E h \in Handlers :
        /\ hpc[h] = "suppressed"
        /\ lastRead.h = h
        /\ mainInj = << >>
        /\ injected = <<Inj1, Inj2>>
        /\ config_text = rtext[0]
        /\ \A r \in Handlers : rpc[r] = "none"

\* ---------------------------------------------------------------- properties of the writers

CallAbsent ==
    \/ call.fn = "single" /\ ~Truthy(call.sdata)
    \/ call.fn = "composite" /\ ~call.cdata.obj
AllTags == <<"yaml", "svg", "dxf", "jscad">>
Present(tag) == call.cdata.obj /\ Truthy(call.cdata[tag])
CallDone == SubSeq(call.plan, 1, call.i)
CreatedDirs == (fs.dirs \ call.before.dirs) \ {Root}

\* C4: a call with an absent payload makes no fs call at all: no file, no
\* directory.  In any call, a directory comes into being under the output
\* root only for a file the call writes into it: the call has written one,
\* or the write into it is the call's very next fs call; once the call has
\* returned, every directory it created holds a file it wrote.  A composite
\* payload without any format tag creates nothing.
C4_NoDirectoryWithoutFile ==
    call.fn # "none" =>
       /\ CallAbsent => (call.plan = << >> /\ call.status = "returned" /\ fs = call.before)
       /\ (call.fn = "composite" /\ \A i \in 1..Len(AllTags) : ~Present(AllTags[i]))
             => (call.plan = << >> /\ fs = call.before)
       /\ \A d \in CreatedDirs :
             \/ \E k \in WrittenKeys(CallDone) : k.dir = d /\ k \in DOMAIN fs.files
             \/ /\ call.status # "returned"
                /\ call.i < Len(call.plan)
                /\ IsWrite(call.plan[call.i + 1])
                /\ call.plan[call.i + 1].dir = d

C4_Witness ==
    /\ call.fn = "composite"
    /\ call.cdata = Composite(EmptyString, Undefined, Undefined, Undefined)
    /\ call.status = "returned"
    /\ fs = EmptyFs

RECURSIVE ExpectedWrites(_)
ExpectedWrites(i) ==
    IF i > Len(AllTags) THEN << >>
    ELSE (IF Present(AllTags[i])
          THEN <<WriteOp(call.rel.dir, call.rel.base, AllTags[i],
                         IF AllTags[i] = "yaml" THEN yamldump(call.cdata.yaml)
                         ELSE Verbatim(call.cdata[AllTags[i]]))>>
          ELSE << >>) \o ExpectedWrites(i + 1)

\* C5: a composite call that has returned has written exactly the files
\* base.tag of the tags present (carrying a value) in the payload, in the
\* order yaml, svg, dxf, jscad; svg, dxf and jscad hold the value verbatim,
\* yaml holds its yamldump; no other file was created or changed.
C5_CompositeWritesPresentTags ==
    (call.fn = "composite" /\ call.status = "returned") =>
       /\ SelectSeq(call.plan, IsWrite) = ExpectedWrites(1)
       /\ \A i \in 1..Len(AllTags) :
             LET k == FileKey(call.rel.dir, call.rel.base, AllTags[i])
             IN IF Present(AllTags[i])
                THEN /\ k \in DOMAIN fs.files
                     /\ fs.files[k] = (IF AllTags[i] = "yaml" THEN yamldump(call.cdata.yaml)
                                       ELSE Verbatim(call.cdata[AllTags[i]]))
                ELSE k \in DOMAIN fs.files =>
                        (k \in DOMAIN call.before.files /\ fs.files[k] = call.before.files[k])
       /\ \A k \in DOMAIN fs.files :
             (k.dir # call.rel.dir \/ k.base # call.rel.base) =>
                (k \in DOMAIN call.before.files /\ fs.files[k] = call.before.files[k])

\* the payload holds svg and dxf only: exactly those two files appear
C5_Witness ==
    /\ call.fn = "composite"
    /\ call.status = "returned"
    /\ call.cdata = Composite(Undefined, "v", "v", EmptyString)
    /\ call.rel = Rel(<<"outlines">>, "o1", "")
    /\ call.before = EmptyFs
    /\ DOMAIN fs.files = {FileKey(<<"outlines">>, "o1", "svg"), FileKey(<<"outlines">>, "o1", "dxf")}

====
